---- MODULE Spec2Model ----
(***************************************************************************)
(* Model of the tenant-ui backend of digi-cred-traction: the Query         *)
(* Component (components/database.ts, PostgreSQL and MySQL variants),      *)
(* the Route Component (routes/router.ts) and the dashboard component that *)
(* shows the summary of the wallet in the browser.                         *)
(*                                                                         *)
(* Every request is stateless.  The state of the model is the record of    *)
(* the call being handled: what it was given, which queries it issued and  *)
(* what they answered, what the Query Component returned or threw, which   *)
(* collaborators were invoked, and which HTTP responses and next(error)    *)
(* calls the handler made, together with whether the server process still  *)
(* runs.  Texts that the code inspects character by                        *)
(* character are sequences: of one-character strings for SQL text and      *)
(* request fields, of code units (integers) for name_text.                 *)
(***************************************************************************)
EXTENDS Integers, Sequences, FiniteSets, TLC

VARIABLES op, input, qlog, ret, calls, res, nexts, process,
          apiStatus, summary, fetch

\* The record of the call being handled.
handling == <<op, input, qlog, ret, calls, res, nexts>>

\* The dashboard component: its data, and how far fetchSummaryData has come.
dashboard == <<apiStatus, summary, fetch>>

vars == <<op, input, qlog, ret, calls, res, nexts, process, apiStatus, summary, fetch>>

(***************************************************************************)
(* Bounds of the model.                                                    *)
(***************************************************************************)
MaxItems == 2        \* rows in the items table
KindSpan == 1        \* kind codes range over -KindSpan .. 5 + KindSpan
MaxNameLen == 1      \* code units in a name_text
MaxTables == 4       \* tables listed by pg_tables
MaxRows == 6         \* rows held by a table read through getTableData
MaxTableNameLen == 2 \* characters of a requested table name

(***************************************************************************)
(* Generic helpers.                                                        *)
(***************************************************************************)
Range(s) == {s[i] : i \in 1..Len(s)}

SeqsUpTo(S, n) == UNION {[1..k -> S] : k \in 0..n}

RECURSIVE SortedInts(_)
SortedInts(S) ==
  IF S = {} THEN <<>>
  ELSE LET m == CHOOSE x \in S : \A y \in S : x <= y
       IN <<m>> \o SortedInts(S \ {m})

RECURSIVE SumSeq(_)
SumSeq(s) == IF s = <<>> THEN 0 ELSE Head(s) + SumSeq(Tail(s))

Digits == <<"0", "1", "2", "3", "4", "5", "6", "7", "8", "9">>

DigitValue(c) == (CHOOSE i \in 1..10 : Digits[i] = c) - 1

IsDigit(c) == c \in Range(Digits)

\* The decimal text PostgreSQL sends for a bigint (COUNT(*) is a bigint).
RECURSIVE DecStr(_)
DecStr(n) ==
  IF n < 10 THEN <<Digits[n + 1]>>
  ELSE DecStr(n \div 10) \o <<Digits[(n % 10) + 1]>>

\* NaN, which is no natural number: parseInt is applied to texts without a
\* sign only, so that it yields no other negative number.
NaN == 0 - 1

\* JavaScript parseInt on a text without sign or blanks: the value of the
\* longest prefix of decimal digits, NaN when that prefix is empty.
RECURSIVE DigitPrefixValue(_, _)
DigitPrefixValue(s, acc) ==
  IF s = <<>> \/ ~IsDigit(Head(s)) THEN acc
  ELSE DigitPrefixValue(Tail(s), 10 * acc + DigitValue(Head(s)))

parseInt(s) ==
  IF s = <<>> \/ ~IsDigit(Head(s)) THEN NaN ELSE DigitPrefixValue(s, 0)

(***************************************************************************)
(* Errors and results.                                                     *)
(***************************************************************************)
DbErrors == {[message |-> "connect ECONNREFUSED"],
             [message |-> "relation does not exist"]}

Return(v) == [kind |-> "return", val |-> v]

Throw(e) == [kind |-> "throw", err |-> e]

NoRet == [kind |-> "none"]

\* What pool.query answered: rows, or a rejection with an error.
Rows(rows) == [ok |-> TRUE, rows |-> rows]

Rejected(e) == [ok |-> FALSE, err |-> e]

Query(sql, params, answer) == [sql |-> sql, params |-> params, answer |-> answer]

(***************************************************************************)
(* The items table as the queries render it.                               *)
(***************************************************************************)
KindCodes == (0 - KindSpan)..(5 + KindSpan)

\* Kinds of the tables read by the queries that do more than format the kind.
SampleKinds == {2, 5 + KindSpan}

Null == [isNull |-> TRUE, text |-> <<>>]

Text(s) == [isNull |-> FALSE, text |-> s]

\* Code units on both sides of the two ends of the printable range.
NameUnits == {31, 32, 126, 127}

NameTexts == {Null} \cup {Text(s) : s \in SeqsUpTo(NameUnits, MaxNameLen)}

HexDigits == <<"0", "1", "2", "3", "4", "5", "6", "7",
               "8", "9", "a", "b", "c", "d", "e", "f">>

\* encode(category, 'hex') of a category bytea.
RECURSIVE Hex(_)
Hex(bytes) ==
  IF bytes = <<>> THEN <<>>
  ELSE <<HexDigits[(Head(bytes) \div 16) + 1], HexDigits[(Head(bytes) % 16) + 1]>>
         \o Hex(Tail(bytes))

Categories == {<<99>>}

ItemRow(i, k, n, c) ==
  [id |-> i, kind |-> k, profile_id |-> 1, category_hex |-> Hex(c),
   name_text |-> n, value_text |-> Null]

\* The table whose row i has id i, kind ks[i], name ns[i] and category cs[i].
ItemTable(n, ks, ns, cs) == [i \in 1..n |-> ItemRow(i, ks[i], ns[i], cs[i])]

\* A holds of some table of at most MaxItems rows.
SomeItems(Kinds, Names, A(_)) ==
  \E n \in 0..MaxItems :
    \E ks \in [1..n -> Kinds], ns \in [1..n -> Names], cs \in [1..n -> Categories] :
      \E t \in {ItemTable(n, ks, ns, cs)} : A(t)

ProfileTables == {[i \in 1..n |-> [id |-> i]] : n \in 0..MaxItems}

(***************************************************************************)
(* database.ts (PostgreSQL): formatKind.                                   *)
(***************************************************************************)
kinds ==
  [k \in 1..5 |-> CASE k = 1 -> "Connection"
                    [] k = 2 -> "Credential"
                    [] k = 3 -> "Message"
                    [] k = 4 -> "Key"
                    [] k = 5 -> "Proof"]

\* formatKind without the fallback that names the code.
formatKindUnknown(kind) ==
  IF kind \in DOMAIN kinds THEN kinds[kind] ELSE "Unknown"

formatKind(kind) ==
  IF kind \in DOMAIN kinds THEN kinds[kind] ELSE "Type " \o ToString(kind)

(***************************************************************************)
(* database.ts (PostgreSQL): countItemsByKind.                             *)
(***************************************************************************)
\* The same query with COUNT(DISTINCT kind) for COUNT(*).
SqlCountDistinctByKind(items) ==
  LET ks == SortedInts({items[i].kind : i \in 1..Len(items)})
  IN [j \in 1..Len(ks) |-> [kind |-> ks[j], count |-> DecStr(1)]]

\* SELECT kind, COUNT(*) FROM postgres.items GROUP BY kind ORDER BY kind
SqlCountByKind(items) ==
  LET ks == SortedInts({items[i].kind : i \in 1..Len(items)})
  IN [j \in 1..Len(ks) |->
        [kind |-> ks[j],
         count |-> DecStr(Cardinality({i \in 1..Len(items) : items[i].kind = ks[j]}))]]

FormatKindRow(row) ==
  [kind |-> formatKind(row.kind), kind_id |-> row.kind, count |-> parseInt(row.count)]

countItemsByKind(answer) ==
  [qlog |-> <<Query("SELECT kind, COUNT(*) ... GROUP BY kind ORDER BY kind", <<>>, answer)>>,
   ret |-> IF answer.ok
           THEN Return([j \in 1..Len(answer.rows) |-> FormatKindRow(answer.rows[j])])
           ELSE Throw(answer.err)]

(***************************************************************************)
(* database.ts (PostgreSQL): getAllItems.                                  *)
(***************************************************************************)
\* The code units of '[Binary data]'.
BinaryData == <<91, 66, 105, 110, 97, 114, 121, 32, 100, 97, 116, 97, 93>>

\* text || fallback: null and the empty text are falsy.
TextOr(t, fallback) == IF t.isNull \/ t.text = <<>> THEN fallback ELSE t.text

FormatItem(item) ==
  [id |-> item.id,
   kind |-> formatKind(item.kind),
   profile_id |-> item.profile_id,
   category |-> item.category_hex,
   name |-> TextOr(item.name_text, BinaryData),
   value |-> TextOr(item.value_text, BinaryData)]

getAllItems(answer) ==
  [qlog |-> <<Query("SELECT id, kind, profile_id, encode(...) FROM postgres.items",
                    <<>>, answer)>>,
   ret |-> IF answer.ok
           THEN Return([j \in 1..Len(answer.rows) |-> FormatItem(answer.rows[j])])
           ELSE Throw(answer.err)]

(***************************************************************************)
(* database.ts (PostgreSQL): countItemsByCategory.                         *)
(***************************************************************************)
HexValue(c) == (CHOOSE i \in 1..16 : HexDigits[i] = c) - 1

RECURSIVE HexLess(_, _)
HexLess(a, b) ==
  IF b = <<>> THEN FALSE
  ELSE IF a = <<>> THEN TRUE
  ELSE IF Head(a) # Head(b) THEN HexValue(Head(a)) < HexValue(Head(b))
  ELSE HexLess(Tail(a), Tail(b))

GroupKey(item) == <<item.category_hex, item.name_text, item.kind>>

\* The group of the items whose key is that of items[i].
CategoryGroup(items, i) ==
  LET members == {j \in 1..Len(items) : GroupKey(items[j]) = GroupKey(items[i])}
  IN [category_hex |-> items[i].category_hex,
      name_text |-> items[i].name_text,
      count |-> DecStr(Cardinality(members)),
      kind |-> items[i].kind,
      item_ids |-> SortedInts({items[j].id : j \in members}),
      first |-> i]

\* ORDER BY count DESC, category_hex; groups the order leaves tied come in
\* the order of their first row.
GroupBefore(g, h) ==
  \/ parseInt(g.count) > parseInt(h.count)
  \/ /\ g.count = h.count
     /\ \/ HexLess(g.category_hex, h.category_hex)
        \/ g.category_hex = h.category_hex /\ g.first < h.first

RECURSIVE OrderGroups(_)
OrderGroups(G) ==
  IF G = {} THEN <<>>
  ELSE LET g == CHOOSE x \in G : \A y \in G \ {x} : GroupBefore(x, y)
       IN <<[category_hex |-> g.category_hex, name_text |-> g.name_text,
             count |-> g.count, kind |-> g.kind, item_ids |-> g.item_ids]>>
            \o OrderGroups(G \ {g})

\* WITH item_data AS (...) SELECT category_hex, name_text, COUNT(*), kind,
\* array_agg(id) FROM item_data GROUP BY category_hex, name_text, kind
\* ORDER BY count DESC, category_hex
SqlCountByCategory(items) ==
  OrderGroups({CategoryGroup(items, i) :
                 i \in {k \in 1..Len(items) :
                          \A j \in 1..(k - 1) : GroupKey(items[j]) # GroupKey(items[k])}})

PrintableLo == 32

PrintableHi == 126

\* The replacement with the class [^\x20-\x7F].
RemoveNonAscii(text) == SelectSeq(text, LAMBDA u : u >= PrintableLo /\ u <= PrintableHi + 1)

\* name_text.replace(/[^\x20-\x7E]/g, '')
RemoveNonPrintable(text) ==
  SelectSeq(text, LAMBDA u : u >= PrintableLo /\ u <= PrintableHi)

\* The code units of 'Unknown'.
Unknown == <<85, 110, 107, 110, 111, 119, 110>>

credentialType(name_text) ==
  IF ~name_text.isNull /\ Len(name_text.text) > 0
  THEN LET cleanedText == RemoveNonPrintable(name_text.text)
       IN IF Len(cleanedText) > 0 THEN cleanedText ELSE Unknown
  ELSE Unknown

FormatCategoryRow(row) ==
  [category_hex |-> row.category_hex,
   credential_type |-> credentialType(row.name_text),
   count |-> parseInt(row.count),
   kind |-> formatKind(row.kind),
   item_ids |-> row.item_ids]

countItemsByCategory(answer) ==
  [qlog |-> <<Query("WITH item_data AS (...) SELECT ... GROUP BY category_hex, name_text, kind",
                    <<>>, answer)>>,
   ret |-> IF answer.ok
           THEN Return([j \in 1..Len(answer.rows) |-> FormatCategoryRow(answer.rows[j])])
           ELSE Throw(answer.err)]

(***************************************************************************)
(* database.ts (PostgreSQL): getItemsByProfileAndKind, getItemById,        *)
(* getAllProfiles, getConfiguration.                                       *)
(***************************************************************************)
RECURSIVE OrderPairs(_)
OrderPairs(P) ==
  IF P = {} THEN <<>>
  ELSE LET m == CHOOSE x \in P : \A y \in P :
                  x[1] < y[1] \/ (x[1] = y[1] /\ x[2] <= y[2])
       IN <<m>> \o OrderPairs(P \ {m})

\* SELECT p.id, i.kind, COUNT(*) FROM postgres.items i JOIN postgres.profiles p
\* ON i.profile_id = p.id GROUP BY p.id, i.kind ORDER BY p.id, i.kind
SqlCountByProfileAndKind(items, profiles) ==
  LET joined == {i \in 1..Len(items) :
                   \E p \in 1..Len(profiles) : profiles[p].id = items[i].profile_id}
      keys == OrderPairs({<<items[i].profile_id, items[i].kind>> : i \in joined})
  IN [j \in 1..Len(keys) |->
        [profile_id |-> keys[j][1],
         kind |-> keys[j][2],
         count |-> DecStr(Cardinality({i \in joined :
                     <<items[i].profile_id, items[i].kind>> = keys[j]}))]]

getItemsByProfileAndKind(answer) ==
  [qlog |-> <<Query("SELECT p.id, i.kind, COUNT(*) ... GROUP BY p.id, i.kind",
                    <<>>, answer)>>,
   ret |-> IF answer.ok THEN Return(answer.rows) ELSE Throw(answer.err)]

\* SELECT * FROM postgres.items WHERE id = $1
SqlSelectById(items, id) == SelectSeq(items, LAMBDA item : item.id = id)

getItemById(id, answer) ==
  [qlog |-> <<Query("SELECT * FROM postgres.items WHERE id = $1", <<id>>, answer)>>,
   ret |-> IF answer.ok
           THEN Return(IF Len(answer.rows) # 0 THEN answer.rows[1] ELSE Null)
           ELSE Throw(answer.err)]

\* getAllProfiles with a catch block that answers no profiles.
getAllProfilesOrNone(answer) ==
  [qlog |-> <<Query("SELECT * FROM postgres.profiles", <<>>, answer)>>,
   ret |-> IF answer.ok THEN Return(answer.rows) ELSE Return(<<>>)]

getAllProfiles(answer) ==
  [qlog |-> <<Query("SELECT * FROM postgres.profiles", <<>>, answer)>>,
   ret |-> IF answer.ok THEN Return(answer.rows) ELSE Throw(answer.err)]

getConfiguration(answer) ==
  [qlog |-> <<Query("SELECT * FROM postgres.config", <<>>, answer)>>,
   ret |-> IF answer.ok THEN Return(answer.rows) ELSE Throw(answer.err)]

(***************************************************************************)
(* database.ts (PostgreSQL): getTableData.                                 *)
(***************************************************************************)
LowerCase == {"a", "b", "c", "d", "e", "f", "g", "h", "i", "j", "k", "l",
              "m", "n", "o", "p", "q", "r", "s", "t", "u", "v", "w", "x",
              "y", "z"}

UpperCase == {"A", "B", "C", "D", "E", "F", "G", "H", "I", "J", "K", "L",
              "M", "N", "O", "P", "Q", "R", "S", "T", "U", "V", "W", "X",
              "Y", "Z"}

DigitChars == Range(Digits)

\* The characters the class [a-zA-Z0-9_] matches.
WordChars == LowerCase \cup UpperCase \cup DigitChars \cup {"_"}

\* The replacement without the g flag: only the first match is deleted.
safeTableNameFirstMatch(tableName) ==
  IF \A i \in 1..Len(tableName) : tableName[i] \in WordChars THEN tableName
  ELSE LET first == CHOOSE i \in 1..Len(tableName) :
                      /\ tableName[i] \notin WordChars
                      /\ \A j \in 1..(i - 1) : tableName[j] \in WordChars
       IN SubSeq(tableName, 1, first - 1) \o SubSeq(tableName, first + 1, Len(tableName))

\* tableName.replace(/[^a-zA-Z0-9_]/g, '')
safeTableName(tableName) == SelectSeq(tableName, LAMBDA c : c \in WordChars)

\* 'SELECT * FROM postgres.'
SelectFromPostgres ==
  <<"S", "E", "L", "E", "C", "T", " ", "*", " ", "F", "R", "O", "M", " ",
    "p", "o", "s", "t", "g", "r", "e", "s", ".">>

\* ' LIMIT $1'
LimitParam == <<" ", "L", "I", "M", "I", "T", " ", "$", "1">>

TableQueryText(name) == SelectFromPostgres \o name \o LimitParam

SyntaxError == [message |-> "syntax error"]

\* What the database answers to SELECT * FROM postgres.<name> LIMIT <limit>
\* when `table` is what it holds under that name (its rows, or the error
\* that reading it raises): no name, or a limit that is no number, is
\* rejected; otherwise the first `limit` rows.
SqlSelectLimit(name, limit, table) ==
  IF ~table.ok THEN table
  ELSE IF name = <<>> \/ limit \notin Nat THEN Rejected(SyntaxError)
  ELSE Rows(SubSeq(table.rows, 1, IF limit < Len(table.rows) THEN limit
                                   ELSE Len(table.rows)))

getTableData(tableName, limit, table) ==
  LET name == safeTableName(tableName)
      answer == SqlSelectLimit(name, limit, table)
  IN [qlog |-> <<Query(TableQueryText(name), <<limit>>, answer)>>,
      ret |-> IF answer.ok THEN Return(answer.rows) ELSE Throw(answer.err)]

(***************************************************************************)
(* database.ts (PostgreSQL): getTables, getTableSchema.                    *)
(***************************************************************************)
getTables(answer) ==
  [qlog |-> <<Query("SELECT tablename FROM pg_tables WHERE schemaname = 'public'",
                    <<>>, answer)>>,
   ret |-> IF answer.ok
           THEN Return([j \in 1..Len(answer.rows) |-> answer.rows[j].tablename])
           ELSE Throw(answer.err)]

getTableSchema(tableName, answer) ==
  [qlog |-> <<Query("SELECT column_name, data_type, is_nullable FROM information_schema.columns",
                    <<tableName>>, answer)>>,
   ret |-> IF answer.ok THEN Return(answer.rows) ELSE Throw(answer.err)]

(***************************************************************************)
(* database.ts (PostgreSQL): dbConfig and getAllItemsFromPublicSchema.     *)
(***************************************************************************)
\* An environment variable that is not set, or set to the empty text, is
\* falsy: both are the empty text here.
OrDefault(value, default) == IF value = "" THEN default ELSE value

\* The same for a value kept as a sequence of characters.
OrDefaultText(value, default) == IF value = <<>> THEN default ELSE value

DefaultPort == <<"5", "4", "3", "2">>

dbConfig(env) ==
  [host |-> OrDefault(env.POSTGRESQL_HOST, "localhost"),
   port |-> parseInt(OrDefaultText(env.POSTGRESQL_PORT, DefaultPort)),
   database |-> OrDefault(env.POSTGRESQL_DB, "askar-wallet"),
   user |-> OrDefault(env.POSTGRESQL_USER, "postgres"),
   password |-> OrDefault(env.POSTGRESQL_PASSWORD, "postgresPass")]

ImportantTables == 3

SampleRows == 5

SampleItem1 ==
  [id |-> 1, name |-> "Sample Item 1", description |-> "This is a sample item"]

SampleItem2 ==
  [id |-> 2, name |-> "Sample Item 2", description |-> "Another sample item"]

ErrorEntry(e) == [error |-> "Error fetching database info", details |-> e.message]

\* The loop over importantTables from table i on; db.schema[i] and db.data[i]
\* are what the database holds for the i-th table.
RECURSIVE describeTables(_, _, _, _, _)
describeTables(names, i, db, log, tableDetails) ==
  IF i > Len(names) THEN [qlog |-> log, ret |-> Return(tableDetails)]
  ELSE
    LET schema == getTableSchema(names[i], db.schema[i])
        sampleData == getTableData(names[i], SampleRows, db.data[i])
    IN IF schema.ret.kind = "throw"
       THEN [qlog |-> log \o schema.qlog, ret |-> schema.ret]
       ELSE IF sampleData.ret.kind = "throw"
       THEN [qlog |-> log \o schema.qlog \o sampleData.qlog, ret |-> sampleData.ret]
       ELSE describeTables(names, i + 1, db,
                           log \o schema.qlog \o sampleData.qlog,
                           Append(tableDetails,
                                  [name |-> names[i],
                                   schema |-> schema.ret.val,
                                   sampleData |-> sampleData.ret.val,
                                   rowCount |-> Len(sampleData.ret.val)]))

\* getAllItemsFromPublicSchema with its try block around getTables only.
getAllItemsFromPublicSchemaUncaught(env, db) ==
  LET listed == getTables(db.tables)
      tables == listed.ret.val
      importantTables ==
        SubSeq(tables, 1, IF Len(tables) < ImportantTables THEN Len(tables)
                          ELSE ImportantTables)
      described == describeTables(importantTables, 1, db, listed.qlog, <<>>)
  IN IF listed.ret.kind = "throw"
     THEN [qlog |-> listed.qlog,
           ret |-> Return(<<ErrorEntry(listed.ret.err), SampleItem1>>)]
     ELSE IF Len(tables) = 0
     THEN [qlog |-> listed.qlog, ret |-> Return(<<SampleItem1, SampleItem2>>)]
     ELSE IF described.ret.kind = "throw"
     THEN [qlog |-> described.qlog, ret |-> described.ret]
     ELSE [qlog |-> described.qlog,
           ret |-> Return([database |-> dbConfig(env).database,
                           tables |-> tables,
                           tableDetails |-> described.ret.val])]

getAllItemsFromPublicSchema(env, db) ==
  LET listed == getTables(db.tables)
      tables == listed.ret.val
      importantTables ==
        SubSeq(tables, 1, IF Len(tables) < ImportantTables THEN Len(tables)
                          ELSE ImportantTables)
      described == describeTables(importantTables, 1, db, listed.qlog, <<>>)
  IN IF listed.ret.kind = "throw"
     THEN [qlog |-> listed.qlog,
           ret |-> Return(<<ErrorEntry(listed.ret.err), SampleItem1>>)]
     ELSE IF Len(tables) = 0
     THEN [qlog |-> listed.qlog, ret |-> Return(<<SampleItem1, SampleItem2>>)]
     ELSE IF described.ret.kind = "throw"
     THEN [qlog |-> described.qlog,
           ret |-> Return(<<ErrorEntry(described.ret.err), SampleItem1>>)]
     ELSE [qlog |-> described.qlog,
           ret |-> Return([database |-> dbConfig(env).database,
                           tables |-> tables,
                           tableDetails |-> described.ret.val])]

(***************************************************************************)
(* database.ts (MySQL): getAllItems, getItemById.                          *)
(***************************************************************************)
getAllItemsMysql(answer) ==
  [qlog |-> <<Query("SELECT * FROM items", <<>>, answer)>>,
   ret |-> IF answer.ok THEN Return(answer.rows) ELSE Throw(answer.err)]

getItemByIdMysql(id, answer) ==
  [qlog |-> <<Query("SELECT * FROM items WHERE id = ?", <<id>>, answer)>>,
   ret |-> IF answer.ok
           THEN Return(IF Len(answer.rows) # 0 THEN answer.rows[1] ELSE Null)
           ELSE Throw(answer.err)]

(***************************************************************************)
(* router.ts: what a handler did.                                          *)
(***************************************************************************)
Response(status, body) == [status |-> status, body |-> body]

\* The handler called the Query Component (r) and then sent and forwarded.
Handled(r, sent, forwarded) ==
  [qlog |-> r.qlog, ret |-> r.ret, calls |-> <<>>, res |-> sent, nexts |-> forwarded]

\* The handler called collaborators and then sent and forwarded.
Proxied(called, sent, forwarded) ==
  [qlog |-> <<>>, ret |-> NoRet, calls |-> called, res |-> sent, nexts |-> forwarded]

\* What a collaborator answered: a value, or a thrown error.
Ok(v) == [ok |-> TRUE, val |-> v]

Fail(e) == [ok |-> FALSE, err |-> e]

Call(fn, args, outcome) == [fn |-> fn, args |-> args, outcome |-> outcome]

ServiceErrors == {[message |-> "service unavailable"]}

Undefined == [defined |-> FALSE]

Defined(v) == [defined |-> TRUE, val |-> v]

(***************************************************************************)
(* router.ts: GET /innkeeperLogin and POST /innkeeperReservation.          *)
(***************************************************************************)
includes(list, x) == \E i \in 1..Len(list) : list[i] = x

\* The check without the test of the configured role.
hasRealmRoles(claims, roleName) ==
  /\ claims.realm_access.defined
  /\ claims.realm_access.val.roles.defined

hasRealmRole(claims, roleName) ==
  /\ claims.realm_access.defined
  /\ claims.realm_access.val.roles.defined
  /\ includes(claims.realm_access.val.roles.val, roleName)

innkeeperLoginHandler(req, roleName, login) ==
  IF hasRealmRole(req.claims, roleName)
  THEN IF login.ok
       THEN Proxied(<<Call("innkeeper.login", <<>>, login)>>,
                    <<Response(200, login.val)>>, <<>>)
       ELSE Proxied(<<Call("innkeeper.login", <<>>, login)>>, <<>>, <<login.err>>)
  ELSE Proxied(<<>>, <<Response(403, "")>>, <<>>)

\* The handler without the await of login(): the token destructured from
\* the pending promise is undefined and login settles after the reservation.
innkeeperReservationNoAwait(req, login, created) ==
  LET called == <<Call("innkeeper.createReservation", <<req, Undefined>>, created),
                  Call("innkeeper.login", <<>>, login)>>
  IN IF created.ok
     THEN Proxied(called, <<Response(201, created.val)>>, <<>>)
     ELSE Proxied(called, <<>>, <<created.err>>)

innkeeperReservationHandler(req, login, created) ==
  IF ~login.ok
  THEN Proxied(<<Call("innkeeper.login", <<>>, login)>>, <<>>, <<login.err>>)
  ELSE LET token == login.val.token
           called == <<Call("innkeeper.login", <<>>, login),
                       Call("innkeeper.createReservation", <<req, token>>, created)>>
       IN IF created.ok
          THEN Proxied(called, <<Response(201, created.val)>>, <<>>)
          ELSE Proxied(called, <<>>, <<created.err>>)

(***************************************************************************)
(* router.ts: POST /email/reservationConfirmation and                      *)
(* POST /email/reservationStatus, with their express-validator chains.     *)
(***************************************************************************)
Positions(text, c) == {i \in 1..Len(text) : text[i] = c}

\* isEmail(): one '@' after a non-empty local part, before a domain that
\* holds a '.' between two non-empty labels.  A field that is missing
\* validates as the empty text.
isEmail(text) ==
  /\ Cardinality(Positions(text, "@")) = 1
  /\ LET at == CHOOSE i \in Positions(text, "@") : TRUE
     IN /\ at > 1
        /\ \E dot \in Positions(text, ".") :
             /\ dot > at + 1
             /\ dot < Len(text)
             /\ \A i \in Positions(text, ".") : i > at

isEmpty(text) == Len(text) = 0

FieldError(path, value) ==
  [type |-> "field", location |-> "body", path |-> path,
   msg |-> "Invalid value", value |-> value]

\* body("contactEmail").isEmail(), body("reservationId").not().isEmpty()
confirmationErrors(body) ==
  (IF isEmail(body.contactEmail) THEN <<>>
   ELSE <<FieldError("contactEmail", body.contactEmail)>>)
  \o (IF ~isEmpty(body.reservationId) THEN <<>>
      ELSE <<FieldError("reservationId", body.reservationId)>>)

\* ... and body("state").not().isEmpty()
statusErrors(body) ==
  confirmationErrors(body)
  \o (IF ~isEmpty(body.state) THEN <<>> ELSE <<FieldError("state", body.state)>>)

\* The handler without the return that follows the 422.
reservationConfirmationNoReturn(req, errors, sent) ==
  LET called == <<Call("email.sendConfirmationEmail", <<req>>, sent)>>
      rejected == IF errors # <<>> THEN <<Response(422, [errors |-> errors])>> ELSE <<>>
  IN IF sent.ok THEN Proxied(called, rejected \o <<Response(200, sent.val)>>, <<>>)
     ELSE Proxied(called, rejected, <<sent.err>>)

reservationConfirmationHandler(req, errors, sent) ==
  IF errors # <<>>
  THEN Proxied(<<>>, <<Response(422, [errors |-> errors])>>, <<>>)
  ELSE LET called == <<Call("email.sendConfirmationEmail", <<req>>, sent)>>
       IN IF sent.ok THEN Proxied(called, <<Response(200, sent.val)>>, <<>>)
          ELSE Proxied(called, <<>>, <<sent.err>>)

\* The handler with a catch block that drops the error.
reservationStatusSwallowed(req, errors, sent) ==
  IF errors # <<>>
  THEN Proxied(<<>>, <<Response(422, [errors |-> errors])>>, <<>>)
  ELSE LET called == <<Call("email.sendStatusEmail", <<req>>, sent)>>
       IN IF sent.ok THEN Proxied(called, <<Response(200, sent.val)>>, <<>>)
          ELSE Proxied(called, <<>>, <<>>)

reservationStatusHandler(req, errors, sent) ==
  IF errors # <<>>
  THEN Proxied(<<>>, <<Response(422, [errors |-> errors])>>, <<>>)
  ELSE LET called == <<Call("email.sendStatusEmail", <<req>>, sent)>>
       IN IF sent.ok THEN Proxied(called, <<Response(200, sent.val)>>, <<>>)
          ELSE Proxied(called, <<>>, <<sent.err>>)

(***************************************************************************)
(* router.ts: the database routes.  Each sends 200 with the result, or     *)
(* 500 with {error, details} and then calls next(error).                   *)
(***************************************************************************)
DatabaseError(e) == [error |-> "Database error", details |-> e.message]

\* The config block as a copy of dbConfig without the password.
connectionConfigWithUser(env) ==
  [host |-> OrDefault(env.POSTGRESQL_HOST, "localhost"),
   port |-> OrDefaultText(env.POSTGRESQL_PORT, DefaultPort),
   database |-> OrDefault(env.POSTGRESQL_DB, "askar-wallet"),
   user |-> OrDefault(env.POSTGRESQL_USER, "postgres")]

connectionConfig(env) ==
  [host |-> OrDefault(env.POSTGRESQL_HOST, "localhost"),
   port |-> OrDefaultText(env.POSTGRESQL_PORT, DefaultPort),
   database |-> OrDefault(env.POSTGRESQL_DB, "askar-wallet")]

itemsErrorBody(e, env) ==
  [error |-> "Database error", details |-> e.message, config |-> connectionConfig(env)]

itemsHandler(r, env) ==
  IF r.ret.kind = "return"
  THEN Handled(r, <<Response(200, r.ret.val)>>, <<>>)
  ELSE Handled(r, <<Response(500, itemsErrorBody(r.ret.err, env))>>, <<r.ret.err>>)

profilesHandler(r) ==
  IF r.ret.kind = "return"
  THEN Handled(r, <<Response(200, r.ret.val)>>, <<>>)
  ELSE Handled(r, <<Response(500, DatabaseError(r.ret.err))>>, <<r.ret.err>>)

DefaultLimit == 20

\* req.query.limit ? parseInt(req.query.limit) : 20; a missing limit is the
\* empty text.
requestedLimit(req) ==
  IF req.query.limit # <<>> THEN parseInt(req.query.limit) ELSE DefaultLimit

tableHandler(req, table) ==
  LET r == getTableData(req.params.tableName, requestedLimit(req), table)
  IN IF r.ret.kind = "return"
     THEN Handled(r, <<Response(200, r.ret.val)>>, <<>>)
     ELSE Handled(r, <<Response(500, DatabaseError(r.ret.err))>>, <<r.ret.err>>)

\* The handler without status(500) in its catch block.
categoriesHandlerNoStatus(r) ==
  IF r.ret.kind = "return"
  THEN Handled(r, <<Response(200, r.ret.val)>>, <<>>)
  ELSE Handled(r, <<Response(200, DatabaseError(r.ret.err))>>, <<r.ret.err>>)

categoriesHandler(r) ==
  IF r.ret.kind = "return"
  THEN Handled(r, <<Response(200, r.ret.val)>>, <<>>)
  ELSE Handled(r, <<Response(500, DatabaseError(r.ret.err))>>, <<r.ret.err>>)

analysisHandler(r) ==
  IF r.ret.kind = "return"
  THEN Handled(r, <<Response(200, r.ret.val)>>, <<>>)
  ELSE Handled(r, <<Response(500, DatabaseError(r.ret.err))>>, <<r.ret.err>>)

summaryHandler(r) ==
  IF r.ret.kind = "return"
  THEN Handled(r, <<Response(200, r.ret.val)>>, <<>>)
  ELSE Handled(r, <<Response(500, DatabaseError(r.ret.err))>>, <<r.ret.err>>)

(***************************************************************************)
(* The dashboard component: data, the computed totalItems and what         *)
(* fetchSummaryData does with the answer of GET /api/items/summary.        *)
(***************************************************************************)
\* summary.reduce((total, item) => total + item.count, 0), counting the rows.
reduceRows(list) == Len(list)

RECURSIVE reduceCount(_)
reduceCount(list) ==
  IF list = <<>> THEN 0
  ELSE reduceCount(SubSeq(list, 1, Len(list) - 1)) + list[Len(list)].count

totalItemsOf(list) == reduceCount(list)

totalItems == totalItemsOf(summary)

\* this.summary.find(item => item.kind === 'Credential')
credentialItem(list) ==
  LET found == {i \in 1..Len(list) : list[i].kind = "Credential"}
  IN IF found = {} THEN Undefined
     ELSE Defined(list[CHOOSE i \in found : \A j \in found : i <= j])

foundStatus(list) ==
  LET item == credentialItem(list)
  IN IF item.defined
     THEN "Found " \o ToString(item.val.count) \o " Credentials, "
            \o ToString(totalItemsOf(list)) \o " total items"
     ELSE "Found " \o ToString(totalItemsOf(list)) \o " total items"

errorStatus(error) == "Error fetching summary: " \o error.message

\* axios rejects a response whose status is not 2xx, and a request that got
\* no response.
RequestFailed(status) ==
  [message |-> "Request failed with status code " \o ToString(status)]

NetworkError == [message |-> "Network Error"]

\* What axios.get settles with, given the response the server sent.
axiosGet(response) ==
  IF response.status >= 200 /\ response.status < 300
  THEN Ok([data |-> response.body])
  ELSE Fail(RequestFailed(response.status))

\* fetchSummaryData from the point where the awaited request has settled.
fetchSummaryData(settled) ==
  IF settled.ok
  THEN [summary |-> settled.val.data, apiStatus |-> foundStatus(settled.val.data)]
  ELSE [summary |-> summary, apiStatus |-> errorStatus(settled.err)]

(***************************************************************************)
(* What the handlers are given.                                            *)
(***************************************************************************)
\* process.env: a variable that is not set is the empty text.
Envs ==
  [POSTGRESQL_HOST : {"", "db.internal"},
   POSTGRESQL_PORT : {<<>>, <<"6", "5", "4", "3">>},
   POSTGRESQL_DB : {"", "wallet"},
   POSTGRESQL_USER : {"", "wallet_admin"},
   POSTGRESQL_PASSWORD : {"", "hunter2"}]

\* The environments that differ in what getAllItemsFromPublicSchema reads.
DatabaseEnvs ==
  {env \in Envs : /\ env.POSTGRESQL_HOST = ""
                  /\ env.POSTGRESQL_PORT = <<>>
                  /\ env.POSTGRESQL_USER = ""
                  /\ env.POSTGRESQL_PASSWORD = ""}

\* Names of the items read where the name is only copied.
SampleNames == {Null, Text(<<>>), Text(<<126>>)}

\* 'items; DROP TABLE x'
DropTableExample ==
  <<"i", "t", "e", "m", "s", ";", " ", "D", "R", "O", "P", " ",
    "T", "A", "B", "L", "E", " ", "x">>

TableNameChars == {"t", "_", ";", " "}

TableNameInputs == SeqsUpTo(TableNameChars, MaxTableNameLen) \cup {DropTableExample}

LimitInputs == {<<>>, <<"0">>, <<"5">>, <<"x">>}

\* What the database holds under a table name: rows, or the error that
\* reading it raises.
TableOf(n) == Rows([j \in 1..n |-> [row |-> j]])

TableContents == {TableOf(n) : n \in 0..MaxRows} \cup {Rejected(e) : e \in DbErrors}

\* The i-th table of pg_tables, in the order of the names.
TableName(i) == IF i = 1 THEN <<"t", "-", "1">> ELSE <<"t", Digits[i + 1]>>

Columns == <<[column_name |-> "id", data_type |-> "integer", is_nullable |-> "NO"]>>

\* pg_tables with n tables.
TablesOf(n) == Rows([i \in 1..n |-> [tablename |-> TableName(i)]])

\* The database as getAllItemsFromPublicSchema sees it: n tables, the i-th
\* of those it describes holding sizes[i] rows, and the failAt-th query of
\* the call rejected with e (no query when failAt = 0).
DatabaseOf(n, sizes, failAt, e) ==
  [tables |-> IF failAt = 1 THEN Rejected(e) ELSE TablesOf(n),
   schema |-> [i \in 1..Len(sizes) |->
                 IF failAt = 2 * i THEN Rejected(e) ELSE Rows(Columns)],
   data |-> [i \in 1..Len(sizes) |->
               IF failAt = 2 * i + 1 THEN Rejected(e) ELSE TableOf(sizes[i])]]

\* The number of tables getAllItemsFromPublicSchema describes out of n.
Described(n) == IF n < ImportantTables THEN n ELSE ImportantTables

RoleLists == {<<>>, <<"user">>, <<"innkeeper">>, <<"user", "innkeeper">>}

Claims ==
  {[realm_access |-> Undefined], [realm_access |-> Defined([roles |-> Undefined])]}
  \cup {[realm_access |-> Defined([roles |-> Defined(roles)])] : roles \in RoleLists}

RoleNames == {"innkeeper", "admin"}

LoginOutcomes == {Ok([token |-> "tkn-1"]), Ok([token |-> "tkn-2"])}
                   \cup {Fail(e) : e \in ServiceErrors}

ReservationOutcomes == {Ok([reservation_id |-> "r-1"])} \cup {Fail(e) : e \in ServiceErrors}

SendOutcomes == {Ok("250 OK")} \cup {Fail(e) : e \in ServiceErrors}

EmailInputs ==
  {<<>>, <<"b", "o", "b">>, <<"b", "@", "x">>, <<"@", "x", ".", "i", "o">>,
   <<"b", "@", "x", ".", "i", "o">>, <<"b", "@", "@", "x", ".", "i", "o">>}

TextInputs == {<<>>, <<"r", "1">>}

(***************************************************************************)
(* The state machine.                                                      *)
(***************************************************************************)
\* The Node process that serves the router and owns the pool.
Running == [exited |-> FALSE]

Exited(code) == [exited |-> TRUE, code |-> code]

Idle == op = "none" /\ ~process.exited

Init ==
  /\ apiStatus = "Loading wallet data..."
  /\ summary = <<>>
  /\ fetch = "created"
  /\ process = Running
  /\ op = "none"
  /\ input = [none |-> TRUE]
  /\ qlog = <<>>
  /\ ret = NoRet
  /\ calls = <<>>
  /\ res = <<>>
  /\ nexts = <<>>

\* The call `name`, given `in`, did what h records.
Finish(name, in, h) ==
  /\ op' = name
  /\ input' = in
  /\ qlog' = h.qlog
  /\ ret' = h.ret
  /\ calls' = h.calls
  /\ res' = h.res
  /\ nexts' = h.nexts
  /\ UNCHANGED process
  /\ UNCHANGED dashboard

\* A call of the Query Component by another caller than the router.
Called(r) == Handled(r, <<>>, <<>>)

GetInnkeeperLogin ==
  /\ Idle
  /\ \E claims \in Claims, roleName \in RoleNames, login \in LoginOutcomes :
       LET req == [claims |-> claims]
       IN Finish("GET /innkeeperLogin", [req |-> req, roleName |-> roleName],
                 innkeeperLoginHandler(req, roleName, login))

PostInnkeeperReservation ==
  /\ Idle
  /\ \E body \in TextInputs, login \in LoginOutcomes, created \in ReservationOutcomes :
       LET req == [body |-> body]
       IN Finish("POST /innkeeperReservation", [req |-> req],
                 innkeeperReservationHandler(req, login, created))

PostReservationConfirmation ==
  /\ Idle
  /\ \E contactEmail \in EmailInputs, reservationId \in TextInputs, sent \in SendOutcomes :
       LET req == [body |-> [contactEmail |-> contactEmail,
                             reservationId |-> reservationId]]
       IN Finish("POST /email/reservationConfirmation", [req |-> req],
                 reservationConfirmationHandler(req, confirmationErrors(req.body), sent))

PostReservationStatus ==
  /\ Idle
  /\ \E contactEmail \in EmailInputs, reservationId \in TextInputs,
        state \in TextInputs, sent \in SendOutcomes :
       LET req == [body |-> [contactEmail |-> contactEmail,
                             reservationId |-> reservationId,
                             state |-> state]]
       IN Finish("POST /email/reservationStatus", [req |-> req],
                 reservationStatusHandler(req, statusErrors(req.body), sent))

GetItems ==
  /\ Idle
  /\ \/ SomeItems(KindCodes, SampleNames, LAMBDA t :
            Finish("GET /items", [items |-> t],
                   itemsHandler(getAllItems(Rows(t)), [none |-> TRUE])))
     \/ \E e \in DbErrors, env \in Envs :
          Finish("GET /items", [env |-> env],
                 itemsHandler(getAllItems(Rejected(e)), env))

GetProfiles ==
  /\ Idle
  /\ \/ \E t \in ProfileTables :
          Finish("GET /profiles", [profiles |-> t], profilesHandler(getAllProfiles(Rows(t))))
     \/ \E e \in DbErrors :
          Finish("GET /profiles", [none |-> TRUE],
                 profilesHandler(getAllProfiles(Rejected(e))))

GetTable ==
  /\ Idle
  /\ \E tableName \in TableNameInputs, limit \in LimitInputs, table \in TableContents :
       LET req == [params |-> [tableName |-> tableName], query |-> [limit |-> limit]]
       IN Finish("GET /table/:tableName", [req |-> req, table |-> table],
                 tableHandler(req, table))

GetItemsCategories ==
  /\ Idle
  /\ \/ SomeItems(SampleKinds, NameTexts, LAMBDA t :
            Finish("GET /items/categories", [items |-> t],
                   categoriesHandler(countItemsByCategory(Rows(SqlCountByCategory(t))))))
     \/ \E e \in DbErrors :
          Finish("GET /items/categories", [none |-> TRUE],
                 categoriesHandler(countItemsByCategory(Rejected(e))))

GetItemsAnalysis ==
  /\ Idle
  /\ \/ \E p \in ProfileTables :
          SomeItems(SampleKinds, {Null}, LAMBDA t :
            Finish("GET /items/analysis", [items |-> t, profiles |-> p],
                   analysisHandler(getItemsByProfileAndKind(
                                     Rows(SqlCountByProfileAndKind(t, p))))))
     \/ \E e \in DbErrors :
          Finish("GET /items/analysis", [none |-> TRUE],
                 analysisHandler(getItemsByProfileAndKind(Rejected(e))))

GetItemsSummary ==
  /\ Idle
  /\ \/ SomeItems(KindCodes, {Null}, LAMBDA t :
            Finish("GET /items/summary", [items |-> t],
                   summaryHandler(countItemsByKind(Rows(SqlCountByKind(t))))))
     \/ \E e \in DbErrors :
          Finish("GET /items/summary", [none |-> TRUE],
                 summaryHandler(countItemsByKind(Rejected(e))))

CallGetItemById ==
  /\ Idle
  /\ \E id \in 1..(MaxItems + 1) :
       \/ SomeItems(SampleKinds, {Null}, LAMBDA t :
              Finish("getItemById", [id |-> id, items |-> t],
                     Called(getItemById(id, Rows(SqlSelectById(t, id))))))
       \/ \E e \in DbErrors :
            Finish("getItemById", [id |-> id], Called(getItemById(id, Rejected(e))))

CallGetConfiguration ==
  /\ Idle
  /\ \E answer \in {Rows(<<>>), Rows(<<[name |-> "default_profile", value |-> "p1"]>>)}
                     \cup {Rejected(e) : e \in DbErrors} :
       Finish("getConfiguration", [none |-> TRUE], Called(getConfiguration(answer)))

CallGetTables ==
  /\ Idle
  /\ \E answer \in {TablesOf(n) : n \in 0..MaxTables} \cup {Rejected(e) : e \in DbErrors} :
       Finish("getTables", [none |-> TRUE], Called(getTables(answer)))

CallGetTableSchema ==
  /\ Idle
  /\ \E i \in 1..MaxTables, answer \in {Rows(<<>>), Rows(Columns)}
                                         \cup {Rejected(e) : e \in DbErrors} :
       Finish("getTableSchema", [tableName |-> TableName(i)],
              Called(getTableSchema(TableName(i), answer)))

CallGetAllItemsFromPublicSchema ==
  /\ Idle
  /\ \E n \in 0..MaxTables :
       \E sizes \in [1..Described(n) -> 0..MaxRows] :
         \/ \E env \in DatabaseEnvs :
              Finish("getAllItemsFromPublicSchema", [env |-> env],
                     Called(getAllItemsFromPublicSchema(
                              env, DatabaseOf(n, sizes, 0, SyntaxError))))
         \/ \E failAt \in 1..(2 * Described(n) + 1), e \in DbErrors, env \in DatabaseEnvs :
              Finish("getAllItemsFromPublicSchema", [env |-> env],
                     Called(getAllItemsFromPublicSchema(
                              env, DatabaseOf(n, sizes, failAt, e))))

CallGetAllItemsMysql ==
  /\ Idle
  /\ \/ SomeItems(SampleKinds, {Null}, LAMBDA t :
            Finish("mysql.getAllItems", [items |-> t], Called(getAllItemsMysql(Rows(t)))))
     \/ \E e \in DbErrors :
          Finish("mysql.getAllItems", [none |-> TRUE], Called(getAllItemsMysql(Rejected(e))))

CallGetItemByIdMysql ==
  /\ Idle
  /\ \E id \in 1..(MaxItems + 1) :
       \/ SomeItems(SampleKinds, {Null}, LAMBDA t :
              Finish("mysql.getItemById", [id |-> id, items |-> t],
                     Called(getItemByIdMysql(id, Rows(SqlSelectById(t, id))))))
       \/ \E e \in DbErrors :
            Finish("mysql.getItemById", [id |-> id],
                   Called(getItemByIdMysql(id, Rejected(e))))

\* The handler has returned; the router waits for the next request.
Complete ==
  /\ op # "none"
  /\ ~process.exited
  /\ UNCHANGED process
  /\ UNCHANGED dashboard
  /\ op' = "none"
  /\ input' = [none |-> TRUE]
  /\ qlog' = <<>>
  /\ ret' = NoRet
  /\ calls' = <<>>
  /\ res' = <<>>
  /\ nexts' = <<>>

\* pool.on('error'): an idle client of the pool failed; the listener logs
\* the error and ends the process, whatever request is being handled.
PoolError ==
  /\ ~process.exited
  /\ process' = Exited(0 - 1)
  /\ UNCHANGED handling
  /\ UNCHANGED dashboard

\* mounted(): the component starts fetchSummaryData, which awaits the request.
Mounted ==
  /\ fetch = "created"
  /\ fetch' = "pending"
  /\ UNCHANGED <<apiStatus, summary>>
  /\ UNCHANGED handling
  /\ UNCHANGED process

\* The router handles the request of the dashboard.
ServeSummary ==
  /\ fetch = "pending"
  /\ GetItemsSummary

Settle(settled) ==
  /\ summary' = fetchSummaryData(settled).summary
  /\ apiStatus' = fetchSummaryData(settled).apiStatus
  /\ fetch' = "settled"
  /\ UNCHANGED handling
  /\ UNCHANGED process

\* The response of the router reaches the dashboard.
SummaryResponse ==
  /\ fetch = "pending"
  /\ op = "GET /items/summary"
  /\ Settle(axiosGet(res[1]))

\* The request gets no response: the server is down or cannot be reached.
SummaryUnanswered ==
  /\ fetch = "pending"
  /\ op = "none"
  /\ Settle(Fail(NetworkError))

Next ==
  \/ GetInnkeeperLogin
  \/ PostInnkeeperReservation
  \/ PostReservationConfirmation
  \/ PostReservationStatus
  \/ GetItems
  \/ GetProfiles
  \/ GetTable
  \/ GetItemsCategories
  \/ GetItemsAnalysis
  \/ GetItemsSummary
  \/ CallGetItemById
  \/ CallGetConfiguration
  \/ CallGetTables
  \/ CallGetTableSchema
  \/ CallGetAllItemsFromPublicSchema
  \/ CallGetAllItemsMysql
  \/ CallGetItemByIdMysql
  \/ Complete
  \/ PoolError

Spec == Init /\ [][Next]_vars

\* The dashboard in the browser, served by the router.
DashboardNext ==
  \/ Mounted
  \/ ServeSummary
  \/ SummaryResponse
  \/ SummaryUnanswered
  \/ PoolError

DashboardSpec == Init /\ [][DashboardNext]_vars

(***************************************************************************)
(* The claims.  Each is stated on the record of the call: the rows and     *)
(* errors the queries answered (qlog), what the Query Component gave back  *)
(* (ret), the collaborators called (calls), the responses sent (res) and   *)
(* the errors forwarded (nexts).                                           *)
(***************************************************************************)
Answer(i) == qlog[i].answer

\* The label the specification gives a kind code.
KindLabel(code) ==
  CASE code = 1 -> "Connection"
    [] code = 2 -> "Credential"
    [] code = 3 -> "Message"
    [] code = 4 -> "Key"
    [] code = 5 -> "Proof"
    [] OTHER -> "Type " \o ToString(code)

FormattingRoutes == {"GET /items", "GET /items/categories", "GET /items/summary"}

\* C1: formatKind is total: wherever the Query Component formats the kind
\* of a row (getAllItems, countItemsByCategory, countItemsByKind), the codes
\* 1..5 become Connection, Credential, Message, Key, Proof, every other code
\* (0 and the negative ones too) becomes 'Type ' followed by the code, and
\* formatting fails for no row: the call returns one result per row.
C1_FormatKindTotal ==
  (op \in FormattingRoutes /\ Answer(1).ok) =>
    /\ ret.kind = "return"
    /\ Len(ret.val) = Len(Answer(1).rows)
    /\ \A j \in 1..Len(ret.val) : ret.val[j].kind = KindLabel(Answer(1).rows[j].kind)

C1_Witness ==
  /\ op = "GET /items/summary"
  /\ ret.kind = "return"
  /\ Len(ret.val) = 2
  /\ Answer(1).rows[1].kind = 0 - 1
  /\ ret.val[1].kind = "Type -1"
  /\ ret.val[2].kind = "Type 0"

\* C2: the counts of the rows countItemsByKind returns sum to the number of
\* rows of the items table, and there is one row per kind code present.
C2_SummaryCountsSumToTotal ==
  (op = "GET /items/summary" /\ ret.kind = "return") =>
    LET present == {input.items[i].kind : i \in 1..Len(input.items)}
    IN /\ SumSeq([j \in 1..Len(ret.val) |-> ret.val[j].count]) = Len(input.items)
       /\ Len(ret.val) = Cardinality(present)
       /\ {ret.val[j].kind_id : j \in 1..Len(ret.val)} = present

C2_Witness ==
  /\ op = "GET /items/summary"
  /\ ret.kind = "return"
  /\ Len(input.items) = 2
  /\ Len(ret.val) = 1
  /\ ret.val[1].count = 2

\* The text with every character outside [A-Za-z0-9_] deleted.
RECURSIVE WordCharsOf(_)
WordCharsOf(text) ==
  IF text = <<>> THEN <<>>
  ELSE IF Head(text) \in WordChars THEN <<Head(text)>> \o WordCharsOf(Tail(text))
  ELSE WordCharsOf(Tail(text))

Contains(text, part) ==
  \E i \in 0..(Len(text) - Len(part)) : SubSeq(text, i + 1, i + Len(part)) = part

\* The part of a table query between 'SELECT * FROM postgres.' and ' LIMIT $1'.
QueriedName(sql) == SubSeq(sql, Len(SelectFromPostgres) + 1, Len(sql) - Len(LimitParam))

\* 'itemsDROPTABLEx'
DropTableSanitized ==
  <<"i", "t", "e", "m", "s", "D", "R", "O", "P", "T", "A", "B", "L", "E", "x">>

\* C3 as stated: getTableData issues its one query with the name made of
\* the characters of the input that are in [A-Za-z0-9_], whatever was
\* dropped, and the text of the query never contains an input from which
\* a character was dropped.
C3_QueryTextNeverContainsInput ==
  op = "GET /table/:tableName" =>
    LET tableName == input.req.params.tableName
    IN /\ Len(qlog) = 1
       /\ qlog[1].sql = SelectFromPostgres \o WordCharsOf(tableName) \o LimitParam
       /\ WordCharsOf(tableName) # tableName => ~Contains(qlog[1].sql, tableName)

\* C3 (amended): getTableData issues its one query, whatever was dropped,
\* with the text 'SELECT * FROM postgres.' + name + ' LIMIT $1' where name
\* is the input without its characters outside [A-Za-z0-9_]; the name in
\* the query is never an input from which a character was dropped.
C3_QueryUsesSanitizedName ==
  op = "GET /table/:tableName" =>
    LET tableName == input.req.params.tableName
    IN /\ Len(qlog) = 1
       /\ qlog[1].sql = SelectFromPostgres \o WordCharsOf(tableName) \o LimitParam
       /\ \A c \in Range(QueriedName(qlog[1].sql)) : c \in WordChars
       /\ WordCharsOf(tableName) # tableName => QueriedName(qlog[1].sql) # tableName
       /\ tableName = DropTableExample => QueriedName(qlog[1].sql) = DropTableSanitized

C3_Witness ==
  /\ op = "GET /table/:tableName"
  /\ input.req.params.tableName = DropTableExample
  /\ Len(qlog) = 1
  /\ QueriedName(qlog[1].sql) = DropTableSanitized
  /\ Len(res) = 1
  /\ res[1].status = 200

\* The e-mail addresses among EmailInputs.
ValidEmailInputs == {<<"b", "@", "x", ".", "i", "o">>}

\* The fields of the body of an e-mail request that fail validation.
ViolatedFields ==
  LET body == input.req.body
  IN (IF body.contactEmail \in ValidEmailInputs THEN {} ELSE {"contactEmail"})
     \cup (IF body.reservationId # <<>> THEN {} ELSE {"reservationId"})
     \cup (IF op = "POST /email/reservationStatus" /\ body.state = <<>>
           THEN {"state"} ELSE {})

EmailRoutes == {"POST /email/reservationConfirmation", "POST /email/reservationStatus"}

\* C4: on the two e-mail routes, when a required field fails validation the
\* one response is 422 with an errors array that names the violated fields
\* and the e-mail collaborator is not invoked; it is invoked only when no
\* field failed.
C4_InvalidBodyIs422 ==
  op \in EmailRoutes =>
    /\ ViolatedFields # {} =>
         /\ Len(res) = 1
         /\ res[1].status = 422
         /\ {res[1].body.errors[i].path : i \in 1..Len(res[1].body.errors)}
              = ViolatedFields
         /\ calls = <<>>
    /\ calls # <<>> => ViolatedFields = {}
    /\ ViolatedFields = {} => Len(calls) = 1

C4_Witness ==
  /\ op = "POST /email/reservationConfirmation"
  /\ input.req.body.contactEmail = <<"b", "o", "b">>
  /\ input.req.body.reservationId # <<>>
  /\ Len(res) = 1
  /\ res[1].status = 422
  /\ Len(res[1].body.errors) = 1
  /\ res[1].body.errors[1].path = "contactEmail"
  /\ calls = <<>>

\* The user name and the password the pool connects with.
Credentials(env) == {dbConfig(env).user, dbConfig(env).password}

RolePresent ==
  LET realm == input.req.claims.realm_access
  IN /\ realm.defined
     /\ realm.val.roles.defined
     /\ input.roleName \in Range(realm.val.roles.val)

\* C6: GET /innkeeperLogin answers 200, with what the innkeeper login
\* returned, only when the claims hold the configured realm role; when
\* realm_access, its roles or the configured role is absent the one response
\* is 403 and the login collaborator is not called.
C6_LoginNeedsRealmRole ==
  op = "GET /innkeeperLogin" =>
    /\ (\E i \in 1..Len(res) : res[i].status = 200) =>
         /\ RolePresent
         /\ Len(calls) = 1
         /\ calls[1].fn = "innkeeper.login"
         /\ calls[1].outcome.ok
         /\ res = <<Response(200, calls[1].outcome.val)>>
    /\ ~RolePresent =>
         /\ Len(res) = 1
         /\ res[1].status = 403
         /\ calls = <<>>
         /\ nexts = <<>>

C6_Witness ==
  /\ op = "GET /innkeeperLogin"
  /\ input.req.claims.realm_access.defined
  /\ input.req.claims.realm_access.val.roles.defined
  /\ input.req.claims.realm_access.val.roles.val = <<"user">>
  /\ input.roleName = "innkeeper"
  /\ Len(res) = 1
  /\ res[1].status = 403
  /\ calls = <<>>

\* The code units of a text that are printable (0x20 to 0x7E), in order.
RECURSIVE PrintableOf(_)
PrintableOf(text) ==
  IF text = <<>> THEN <<>>
  ELSE IF Head(text) \in 32..126 THEN <<Head(text)>> \o PrintableOf(Tail(text))
  ELSE PrintableOf(Tail(text))

SingleQueryOps ==
  {"GET /items", "GET /profiles", "GET /table/:tableName", "GET /items/categories",
   "GET /items/analysis", "GET /items/summary", "getItemById", "getConfiguration",
   "getTables", "getTableSchema", "mysql.getAllItems", "mysql.getItemById"}

\* C8: every operation of the Query Component other than the diagnostic
\* aggregate issues its query exactly once per call, returns a result when
\* the query succeeds, and throws the failure of the query itself when it
\* fails.
C8_OneQueryFailurePropagates ==
  op \in SingleQueryOps =>
    /\ Len(qlog) = 1
    /\ Answer(1).ok => ret.kind = "return"
    /\ ~Answer(1).ok => ret = [kind |-> "throw", err |-> Answer(1).err]

C8_Witness ==
  /\ op = "GET /profiles"
  /\ Len(qlog) = 1
  /\ ~Answer(1).ok
  /\ ret.kind = "throw"
  /\ ret.err = Answer(1).err

\* Some query of the call was rejected.
SomeQueryFailed == \E i \in 1..Len(qlog) : ~Answer(i).ok

\* C9: getAllItemsFromPublicSchema never throws: it returns a list of two
\* placeholder entries when no table is listed and when the listing, a
\* schema query or a sample query fails; otherwise it returns the details
\* of the first tables listed, at most 3, each with at most 5 sample rows.
C9_DiagnosticNeverThrows ==
  op = "getAllItemsFromPublicSchema" =>
    /\ ret.kind = "return"
    /\ IF SomeQueryFailed \/ Len(Answer(1).rows) = 0
       THEN Len(ret.val) = 2
       ELSE LET listed == Answer(1).rows
                details == ret.val.tableDetails
            IN /\ Len(details) <= 3
               /\ Len(details) = (IF Len(listed) < 3 THEN Len(listed) ELSE 3)
               /\ \A i \in 1..Len(details) :
                    /\ details[i].name = listed[i].tablename
                    /\ Len(details[i].sampleData) <= 5
                    /\ details[i].rowCount = Len(details[i].sampleData)

C9_Witness ==
  /\ op = "getAllItemsFromPublicSchema"
  /\ Len(qlog) = 5
  /\ Answer(1).ok
  /\ Len(Answer(1).rows) = 4
  /\ ~Answer(5).ok
  /\ ret.kind = "return"
  /\ Len(ret.val) = 2

DatabaseRoutes ==
  {"GET /items", "GET /profiles", "GET /table/:tableName", "GET /items/categories",
   "GET /items/analysis", "GET /items/summary"}

\* C10: each of the six database routes answers 200 with the result of the
\* Query Component exactly when its query succeeds and 500 with a body
\* holding error and details (the message of the failure) exactly when it
\* fails, and sends nothing else.
C10_DatabaseRoutes200Or500 ==
  op \in DatabaseRoutes =>
    /\ Len(res) = 1
    /\ res[1].status \in {200, 500}
    /\ res[1].status = 200 <=> Answer(1).ok
    /\ Answer(1).ok => (ret.kind = "return" /\ res[1].body = ret.val)
    /\ ~Answer(1).ok =>
         /\ {"error", "details"} \subseteq DOMAIN res[1].body
         /\ res[1].body.error = "Database error"
         /\ res[1].body.details = Answer(1).err.message

C10_Witness ==
  /\ op = "GET /items/categories"
  /\ ~Answer(1).ok
  /\ Len(res) = 1
  /\ res[1].status = 500
  /\ res[1].body.details = "relation does not exist"

(***************************************************************************)
(* C11.                                                                    *)
(***************************************************************************)
ProxyRoutes ==
  {"GET /innkeeperLogin", "POST /innkeeperReservation",
   "POST /email/reservationConfirmation", "POST /email/reservationStatus"}

\* The query of a database route was rejected.
QueryFailed == op \in DatabaseRoutes /\ ret.kind = "throw"

\* The last collaborator a proxy route called threw.
ServiceFailed ==
  op \in ProxyRoutes /\ calls # <<>> /\ ~calls[Len(calls)].outcome.ok

ServiceError == calls[Len(calls)].outcome.err

Answered500 == \E i \in 1..Len(res) : res[i].status = 500

\* C11 as stated: the process ends only by the pool's 'error' event, which
\* exits with -1 and is no step of a handler, and every failure in a route
\* handler (a rejected query, a failing login, reservation or e-mail call) is
\* answered by that handler with a 500.
C11_EveryFailureAnswered500 ==
  /\ []((QueryFailed \/ ServiceFailed) => Answered500)
  /\ [][process' # process => (UNCHANGED handling /\ process' = Exited(0 - 1))]_vars

\* C11 as amended: the process ends only by the pool's 'error' event, which
\* exits with -1 and is no step of a handler; a rejected query is answered by
\* the database route with a 500 carrying "Database error" and the error's
\* message; a failing login, reservation or e-mail call is caught and
\* forwarded by next(error), the handler itself sending no response.
C11_OnlyPoolErrorTerminates ==
  /\ [](QueryFailed =>
          /\ Len(res) = 1
          /\ res[1].status = 500
          /\ res[1].body.error = "Database error"
          /\ res[1].body.details = ret.err.message)
  /\ [](ServiceFailed => (res = <<>> /\ nexts = <<ServiceError>>))
  /\ [][process' # process => (UNCHANGED handling /\ process' = Exited(0 - 1))]_vars

\* The pool failed while the error of an e-mail call had just been forwarded.
C11_Witness ==
  /\ process = Exited(0 - 1)
  /\ op = "POST /email/reservationStatus"
  /\ ServiceFailed
  /\ nexts = <<ServiceError>>

(***************************************************************************)
(* C12.                                                                    *)
(***************************************************************************)
Sent201 == \E i \in 1..Len(res) : res[i].status = 201

\* C12: on POST /innkeeperReservation the first collaborator call is login();
\* createReservation is called only as the second call, after a login that
\* succeeded, with the request and the token of that login; after a failing
\* login nothing else is called and no 201 is sent; a 201 is sent only after
\* createReservation succeeded, and carries its result.
C12_LoginBeforeReservation ==
  op = "POST /innkeeperReservation" =>
    /\ Len(calls) \in {1, 2}
    /\ calls[1].fn = "innkeeper.login"
    /\ \A i \in 1..Len(calls) :
         calls[i].fn = "innkeeper.createReservation" =>
           /\ i = 2
           /\ calls[1].outcome.ok
           /\ calls[i].args = <<input.req, calls[1].outcome.val.token>>
    /\ ~calls[1].outcome.ok => (Len(calls) = 1 /\ ~Sent201)
    /\ Sent201 =>
         /\ Len(calls) = 2
         /\ calls[2].fn = "innkeeper.createReservation"
         /\ calls[2].outcome.ok
         /\ res = <<Response(201, calls[2].outcome.val)>>

\* A reservation was created with the second of the two tokens and answered
\* with 201.
C12_Witness ==
  /\ op = "POST /innkeeperReservation"
  /\ Len(calls) = 2
  /\ calls[1].outcome = Ok([token |-> "tkn-2"])
  /\ calls[2].args = <<input.req, "tkn-2">>
  /\ Sent201

\* The login failed and the reservation was never asked for.
C12_WitnessLoginFailed ==
  /\ op = "POST /innkeeperReservation"
  /\ Len(calls) = 1
  /\ ~calls[1].outcome.ok
  /\ res = <<>>

(***************************************************************************)
(* C13.                                                                    *)
(***************************************************************************)
Routes == ProxyRoutes \cup DatabaseRoutes

\* C13: a handler that has run to its end has either sent exactly one
\* response and forwarded nothing, or forwarded exactly one error by
\* next(error) and sent nothing; it never forwards an error for a request
\* it has answered.
C13_RespondOrForward ==
  op \in Routes =>
    \/ Len(res) = 1 /\ nexts = <<>>
    \/ res = <<>> /\ Len(nexts) = 1

(***************************************************************************)
(* C14, under DashboardSpec.                                               *)
(***************************************************************************)
Counts == 0..MaxItems

FoundMessages ==
  {"Found " \o ToString(t) \o " total items" : t \in Counts}
  \cup {"Found " \o ToString(c) \o " Credentials, " \o ToString(t) \o " total items" :
          c \in Counts, t \in Counts}

ErrorMessages ==
  {"Error fetching summary: " \o m :
     m \in {"Request failed with status code 500", "Network Error"}}

\* The request of the dashboard was answered with 200.
SummaryArrived == fetch = "settled" /\ op = "GET /items/summary" /\ res[1].status = 200

\* The request of the dashboard was answered with an error, or not at all.
SummaryFailed == fetch = "settled" /\ ~SummaryArrived

CountFields == [i \in 1..Len(summary) |-> summary[i].count]

\* C14: until fetchSummaryData has completed, apiStatus is 'Loading wallet
\* data...' and summary the empty list; once it has completed, apiStatus is
\* a 'Found ...' message if the summary arrived and an 'Error fetching
\* summary: ...' message if the request failed; after a failed request
\* summary is still the initial empty list and totalItems is 0; and in every
\* state totalItems is the sum of the count fields of summary.
C14_DashboardStatus ==
  /\ fetch \in {"created", "pending", "settled"}
  /\ fetch # "settled" => (apiStatus = "Loading wallet data..." /\ summary = <<>>)
  /\ fetch = "settled" => apiStatus \in FoundMessages \cup ErrorMessages
  /\ SummaryArrived => (apiStatus \in FoundMessages /\ summary = res[1].body)
  /\ SummaryFailed => (apiStatus \in ErrorMessages /\ summary = <<>> /\ totalItems = 0)
  /\ totalItems = SumSeq(CountFields)

\* Two credentials arrived: one row, two items.
C14_Witness ==
  /\ SummaryArrived
  /\ Len(summary) = 1
  /\ summary[1].kind = "Credential"
  /\ apiStatus = "Found 2 Credentials, 2 total items"
  /\ totalItems = 2

\* The router answered 500 and the dashboard shows the error.
C14_WitnessFailed ==
  /\ SummaryFailed
  /\ op = "GET /items/summary"
  /\ apiStatus = "Error fetching summary: Request failed with status code 500"
  /\ summary = <<>>

====
